---- MODULE Spec2Model ----
(***************************************************************************)
(* SoundSourceMediaFoundation: sample accurate seeking and decoding on top *)
(* of the block oriented IMFSourceReader.                                  *)
(*                                                                         *)
(* Positions are frame indices.  Decoded audio is kept as a sequence of    *)
(* chunks <<lo, hi, q>>: the samples lo..hi-1 of the interleaved stream    *)
(* (sample index = frame index * channel count + channel), decoded with    *)
(* quality q.  q = 0 is the bit exact value of the sample; q = p > 0 is    *)
(* the value the decoder produces for it while it is still warming up      *)
(* after a native seek that landed on frame p.  Chunk sequences are kept   *)
(* normalised (no empty chunk, adjacent chunks merged), so two sequences   *)
(* are equal exactly when they hold the same sample values.                *)
(***************************************************************************)
EXTENDS Integers, Sequences, FiniteSets, TLC

\* ---------------------------------------------------------------- constants
kBytesPerSample == 4
kLeftoverSize == 4096
kNumberOfPrefetchFrames == 2112
kStreamUnitsPerSecond == 10000000
kFrameIndexMin == 0

\* ------------------------------------------------------------------- bounds
\* a scripted decoder fault hits one of the first MaxFaultPull pulls of a call
MaxFaultPull == 1
\* a scripted SetCurrentPosition failure hits one of the first MaxFailSeek
\* native seeks of a call
MaxFailSeek == 1
\* distance (frames) between the requested and the reached native position
MaxSeekSlack == 300

Min(a, b) == IF a < b THEN a ELSE b
Max(a, b) == IF a > b THEN a ELSE b

\* ------------------------------------------------------------ sample chunks
ChunkLen(c) == c[2] - c[1]

RECURSIVE Samples(_)
Samples(cs) == IF cs = <<>> THEN 0 ELSE ChunkLen(Head(cs)) + Samples(Tail(cs))

\* append one chunk, keeping the sequence normalised
Put(cs, c) ==
    IF ChunkLen(c) <= 0 THEN cs
    ELSE IF cs # <<>> /\ cs[Len(cs)][2] = c[1] /\ cs[Len(cs)][3] = c[3]
         THEN [cs EXCEPT ![Len(cs)] = <<cs[Len(cs)][1], c[2], c[3]>>]
         ELSE Append(cs, c)

RECURSIVE Cat(_, _)
Cat(cs, ds) == IF ds = <<>> THEN cs ELSE Cat(Put(cs, Head(ds)), Tail(ds))

\* the first k samples of cs
RECURSIVE Front(_, _)
Front(cs, k) ==
    IF k <= 0 \/ cs = <<>> THEN <<>>
    ELSE LET c == Head(cs) IN
         IF ChunkLen(c) <= k
         THEN <<c>> \o Front(Tail(cs), k - ChunkLen(c))
         ELSE << <<c[1], c[1] + k, c[3]>> >>

\* cs without its first k samples
RECURSIVE DropFront(_, _)
DropFront(cs, k) ==
    IF k <= 0 \/ cs = <<>> THEN cs
    ELSE LET c == Head(cs) IN
         IF ChunkLen(c) <= k
         THEN DropFront(Tail(cs), k - ChunkLen(c))
         ELSE << <<c[1] + k, c[2], c[3]>> >> \o Tail(cs)

\* the last k samples of cs / cs without its last k samples
Back(cs, k) == DropFront(cs, Samples(cs) - k)
DropBack(cs, k) == Front(cs, Samples(cs) - k)

\* ---------------------------------------------------- ReadAheadSampleBuffer
\* [capacity, data]: data are the readable samples, oldest first
NewBuffer == [capacity |-> 0, data |-> <<>>]

readableLength(b) == Samples(b.data)

\* ReadAheadSampleBuffer(that, capacity): a copy of that with a new capacity
CopyWithCapacity(b, cap) == [capacity |-> cap, data |-> b.data]

clear(b) == [b EXCEPT !.data = <<>>]

\* write(n) hands out at most the free space; the caller copies cs into it
write(b, cs) ==
    LET n == Min(Samples(cs), b.capacity - readableLength(b))
    IN [buf |-> [b EXCEPT !.data = Cat(@, Front(cs, n))], size |-> Max(n, 0)]

\* consumes the oldest samples
readFifo(b, readLength) ==
    LET n == Min(readLength, readableLength(b))
    IN [slice |-> Front(b.data, n), buf |-> [b EXCEPT !.data = DropFront(@, n)]]

\* consumes the samples written last
readLifo(b, readLength) ==
    LET n == Min(readLength, readableLength(b))
    IN [slice |-> Back(b.data, n), buf |-> [b EXCEPT !.data = DropBack(@, n)]]

\* -------------------------------------------------------- unit conversions
frames2samples(s, frames) == frames * s.channelCount
samples2frames(s, samples) == samples \div s.channelCount

\* StreamUnitConverter: frame index <-> units of 100 ns
\* floor(a * b / c) for a >= 0 and b, c multiples of 100, computed without
\* leaving the 32 bit integers of the model checker
MulDiv(a, b, c) ==
    LET b1 == b \div 100
        c1 == c \div 100
    IN (a \div c1) * b1 + (((a % c1) * b1) \div c1)

fromFrameIndex(s, frameIndex) ==
    MulDiv(frameIndex - kFrameIndexMin, kStreamUnitsPerSecond, s.sampleRate)

\* a conversion that rounds the stream position down as it is
toFrameIndex_RoundsDown(s, streamPos) ==
    kFrameIndexMin + MulDiv(streamPos, s.sampleRate, kStreamUnitsPerSecond)

toFrameIndex(s, streamPos) ==
    kFrameIndexMin + MulDiv(streamPos + 1, s.sampleRate, kStreamUnitsPerSecond)

frameIndexMin(s) == kFrameIndexMin
frameIndexMax(s) == s.frameIndexMax
isValidFrameIndex(s, i) == frameIndexMin(s) <= i /\ i <= frameIndexMax(s)

\* ------------------------------------------------------- IMFSourceReader
\* The decoder behind m_pSourceReader: decPos is the frame index of the next
\* block it produces, decLand the frame it landed on with the last
\* SetCurrentPosition (0: decoding started at the beginning of the stream),
\* decEnd the frame index after its last frame, blockFrames its block size.
\* The faults it reports and the inexactness of its seeks during one call
\* are the call's script.
\*   ReadSampleFailed   ReadSample returns a failure HRESULT
\*   ErrorFlag          MF_SOURCE_READERF_ERROR
\*   MediaTypeChanged   MF_SOURCE_READERF_CURRENTMEDIATYPECHANGED
\*   SampleQueryFailed  IMFSample::GetBufferCount or GetTotalLength fails
\*   MediaBufferFailed  IMFSample::GetBufferByIndex or IMFMediaBuffer::Lock
\*                      fails for the media buffer bufIdx of the sample
PullFaultKinds ==
    {"ReadSampleFailed", "ErrorFlag", "MediaTypeChanged", "SampleQueryFailed",
     "MediaBufferFailed"}
LandModes == {"exact", "before", "after"}

NoScript == [kind |-> "none", at |-> 0, bufIdx |-> 0, land |-> "exact",
             slack |-> 0, seekFailAt |-> 0]

Scripts ==
    {NoScript}
    \cup {[NoScript EXCEPT !.kind = k, !.at = n] :
            k \in PullFaultKinds, n \in 1..MaxFaultPull}
    \cup {[NoScript EXCEPT !.kind = "MediaBufferFailed", !.at = n, !.bufIdx = 1] :
            n \in 1..MaxFaultPull}
    \cup {[NoScript EXCEPT !.land = m, !.slack = MaxSeekSlack] :
            m \in LandModes \ {"exact"}}
    \cup {[NoScript EXCEPT !.seekFailAt = n] : n \in 1..MaxFailSeek}

\* the decoder's own clock: time stamp of the block that starts at frame p,
\* and the frame that contains time t
DecoderTimestamp(s, p) == MulDiv(p, kStreamUnitsPerSecond, s.sampleRate)
DecoderFrameAt(s, t) == MulDiv(t + 1, s.sampleRate, kStreamUnitsPerSecond)

\* the samples of the frames [lo, hi) as the decoder produces them now: the
\* first kNumberOfPrefetchFrames frames after a native seek are not exact
BlockChunks(s, lo, hi) ==
    LET w == IF s.decLand = 0 THEN lo
             ELSE Min(Max(s.decLand + kNumberOfPrefetchFrames, lo), hi)
    IN Put(Put(<<>>, <<frames2samples(s, lo), frames2samples(s, w), s.decLand>>),
           <<frames2samples(s, w), frames2samples(s, hi), 0>>)

\* IMFSourceReader::SetCurrentPosition(seekPos): where the decoder lands
Landing(s, seekPos) ==
    LET p == DecoderFrameAt(s, seekPos)
    IN CASE s.script.land = "before" -> Max(p - s.script.slack, 0)
         [] s.script.land = "after" -> Min(p + s.script.slack, s.decEnd)
         [] OTHER -> p

SetCurrentPosition(s, seekPos) ==
    LET n == Len(s.natives) + 1
        p == Landing(s, seekPos)
    IN IF s.script.seekFailAt = n
       THEN [st |-> [s EXCEPT !.events = @ \cup {"seekfailed"}], ok |-> FALSE]
       ELSE [st |-> [s EXCEPT !.decPos = p, !.decLand = p], ok |-> TRUE]

\* IMFSourceReader::ReadSample: one pull
ReadSample(s) ==
    LET fault == IF s.script.kind \in PullFaultKinds /\ s.script.at = s.pulls + 1
                 THEN s.script.kind ELSE "none"
        s1 == [s EXCEPT !.pulls = @ + 1]
        lo == s.decPos
        hi == Min(lo + s.blockFrames, s.decEnd)
        none == [st |-> s1, kind |-> "failed", streamPos |-> 0,
                 lo |-> lo, hi |-> lo, fault |-> fault]
    IN CASE fault = "ReadSampleFailed" -> none
         [] fault = "ErrorFlag" -> [none EXCEPT !.kind = "error"]
         [] fault = "MediaTypeChanged" -> [none EXCEPT !.kind = "typechanged"]
         [] fault \notin {"ReadSampleFailed", "ErrorFlag", "MediaTypeChanged"}
            /\ lo >= s.decEnd -> [none EXCEPT !.kind = "endofstream"]
         [] OTHER -> [st |-> [s1 EXCEPT !.decPos = hi], kind |-> "sample",
                      streamPos |-> DecoderTimestamp(s, lo),
                      lo |-> lo, hi |-> hi, fault |-> fault]

\* the IMFMediaBuffers of a pulled IMFSample and the (1-based) index of the
\* buffer whose GetBufferByIndex/Lock fails (0: none)
MediaBuffers(s, lo, hi, fault) ==
    IF fault = "MediaBufferFailed" /\ s.script.bufIdx = 1 /\ hi - lo >= 2
    THEN LET mid == lo + ((hi - lo) \div 2)
         IN [bufs |-> <<BlockChunks(s, lo, mid), BlockChunks(s, mid, hi)>>,
             failAt |-> 2]
    ELSE [bufs |-> <<BlockChunks(s, lo, hi)>>,
          failAt |-> IF fault = "MediaBufferFailed" THEN 1 ELSE 0]

\* a safeRelease that calls Release() and keeps the pointer
safeRelease_KeepsPointer(s) ==
    IF s.m_pSourceReader
    THEN [s EXCEPT !.releases = @ + 1, !.decPos = 0, !.decLand = 0]
    ELSE s

\* safeRelease(&m_pSourceReader): the decoder goes with its last reference
safeRelease(s) ==
    IF s.m_pSourceReader
    THEN [s EXCEPT !.m_pSourceReader = FALSE, !.releases = @ + 1,
                   !.decPos = 0, !.decLand = 0]
    ELSE s

\* ------------------------------------------- readSampleFramesClamped: loops
\* s with the outcome e of a decoder call noted
Noted(s, e) == [s EXCEPT !.events = @ \cup {e}]

RECURSIVE Doubled(_, _)
Doubled_ToFit(cap, n) == IF cap >= n \/ cap <= 0 THEN cap ELSE n

Doubled(cap, n) == IF cap >= n \/ cap <= 0 THEN cap ELSE Doubled(cap * 2, n)

\* while (dwSampleBufferIndex < dwSampleBufferCount) { ... }
RECURSIVE BufferLoop(_, _, _, _, _, _)

\* the locked media buffer: copySamplesCount samples go to the output, the
\* remaining ones into m_sampleBuffer
\* a copy that advances the position only when there is an output buffer
CopyLocked_SkipKeepsPosition(s, rem, hasOut, locked, copySamplesCount) ==
    LET s1 == IF copySamplesCount > 0
              THEN [s EXCEPT !.out = IF hasOut
                                     THEN Cat(@, Front(locked, copySamplesCount))
                                     ELSE @,
                             !.m_currentFrameIndex =
                                 IF hasOut
                                 THEN @ + samples2frames(s, copySamplesCount)
                                 ELSE @]
              ELSE s
    IN [st |-> [s1 EXCEPT !.m_sampleBuffer =
                   write(@, DropFront(locked, copySamplesCount)).buf],
        rem |-> IF copySamplesCount > 0
                THEN rem - samples2frames(s, copySamplesCount) ELSE rem]

CopyLocked(s, rem, hasOut, locked, copySamplesCount) ==
    LET s1 == IF copySamplesCount > 0
              THEN [s EXCEPT !.out = IF hasOut
                                     THEN Cat(@, Front(locked, copySamplesCount))
                                     ELSE @,
                             !.m_currentFrameIndex =
                                 @ + samples2frames(s, copySamplesCount)]
              ELSE s
    IN [st |-> [s1 EXCEPT !.m_sampleBuffer =
                   write(@, DropFront(locked, copySamplesCount)).buf],
        rem |-> IF copySamplesCount > 0
                THEN rem - samples2frames(s, copySamplesCount) ELSE rem]

BufferLoopNext(c, hasOut, bufs, i, failAt) ==
    BufferLoop(c.st, c.rem, hasOut, bufs, i, failAt)

BufferLoop(s, rem, hasOut, bufs, i, failAt) ==
    IF i > Len(bufs) THEN [st |-> s, rem |-> rem, all |-> TRUE]
    ELSE IF i = failAt THEN [st |-> s, rem |-> rem, all |-> FALSE]
    ELSE BufferLoopNext(
             CopyLocked(s, rem, hasOut, bufs[i],
                        Min(frames2samples(s, rem), Samples(bufs[i]))),
             hasOut, bufs, i + 1, failAt)

\* the first part of the loop body: consume the decoded samples
DrainSlice(s, rem, hasOut, r, n) ==
    IF n > 0
    THEN [st |-> [s EXCEPT !.m_sampleBuffer = r.buf,
                           !.out = IF hasOut THEN Cat(@, r.slice) ELSE @,
                           !.m_currentFrameIndex = @ + samples2frames(s, n),
                           !.drained = Append(@, <<s.m_sampleBuffer.data, r.slice>>)],
          rem |-> rem - samples2frames(s, n)]
    ELSE [st |-> s, rem |-> rem]

DrainRead(s, rem, hasOut, r) == DrainSlice(s, rem, hasOut, r, Samples(r.slice))

Drain(s, rem, hasOut) ==
    DrainRead(s, rem, hasOut, readLifo(s.m_sampleBuffer, frames2samples(s, rem)))

\* while (numberOfFramesRemaining > 0) { ... }
RECURSIVE ReadLoop(_, _, _)

\* after the buffer loop: kill the reader if a media buffer was not read
ReadLoopCopied(b, hasOut) ==
    IF ~b.all
    THEN [st |-> safeRelease(Noted(b.st, "bufferfailed")), rem |-> b.rem]
    ELSE ReadLoop(b.st, b.rem, hasOut)

ReadLoopBuffers(s, rem, hasOut, mb) ==
    ReadLoopCopied(BufferLoop(s, rem, hasOut, mb.bufs, 1, mb.failAt), hasOut)

\* enlarge the temporary buffer (if necessary)
Enlarged(s, sampleBufferCapacity) ==
    IF s.m_sampleBuffer.capacity < sampleBufferCapacity
    THEN [s EXCEPT !.m_sampleBuffer = CopyWithCapacity(@, sampleBufferCapacity),
                   !.grown = Append(@, <<s.m_sampleBuffer.data,
                                         CopyWithCapacity(s.m_sampleBuffer,
                                             sampleBufferCapacity).data>>)]
    ELSE s

ReadLoopEnlarged(s, p, rem, hasOut) ==
    ReadLoopBuffers(s, rem, hasOut, MediaBuffers(s, p.lo, p.hi, p.fault))

\* the pulled sample: GetBufferCount, GetTotalLength, then its media buffers
ReadLoopSample(s, p, rem, hasOut) ==
    IF p.fault = "SampleQueryFailed"
    THEN [st |-> Noted(s, "dropped"), rem |-> rem]
    ELSE ReadLoopEnlarged(
             Enlarged(s, Doubled(s.m_sampleBuffer.capacity,
                                 frames2samples(s, p.hi - p.lo))),
             p, rem, hasOut)

\* m_currentFrameIndex = readerFrameIndex, and whether the assertion on the
\* time stamp of the block held
Timestamped(s, readerFrameIndex) ==
    [s EXCEPT !.tsBad = @ \/ (s.m_currentFrameIndex # frameIndexMax(s)
                              /\ s.m_currentFrameIndex # readerFrameIndex),
              !.m_currentFrameIndex = readerFrameIndex]

\* MF_SOURCE_READERF_ENDOFSTREAM: finished reading
ReadLoopEndOfStream_Releases(s) == safeRelease(Noted(s, "endofstream"))

ReadLoopEndOfStream(s) == Noted(s, "endofstream")

\* MF_SOURCE_READERF_CURRENTMEDIATYPECHANGED: abort
ReadLoopTypeChanged_Releases(s) == safeRelease(Noted(s, "typechanged"))

ReadLoopTypeChanged(s) == Noted(s, "typechanged")

\* what ReadSample returned
ReadLoopPulled(p, rem, hasOut) ==
    CASE p.kind = "failed" -> [st |-> Noted(p.st, p.kind), rem |-> rem]
      [] p.kind = "error" -> [st |-> safeRelease(Noted(p.st, p.kind)), rem |-> rem]
      [] p.kind = "endofstream" -> [st |-> ReadLoopEndOfStream(p.st), rem |-> rem]
      [] p.kind = "typechanged" -> [st |-> ReadLoopTypeChanged(p.st), rem |-> rem]
      [] OTHER -> ReadLoopSample(
                      Timestamped(p.st, toFrameIndex(p.st, p.streamPos)),
                      p, rem, hasOut)

\* a loop that pulls without looking at the reader
ReadLoopDrained_PullsDead(d, hasOut) ==
    IF d.rem = 0 THEN d
    ELSE ReadLoopPulled(ReadSample(d.st), d.rem, hasOut)

ReadLoopDrained(d, hasOut) ==
    IF d.rem = 0 THEN d
    ELSE IF ~d.st.m_pSourceReader THEN d
    ELSE ReadLoopPulled(ReadSample(d.st), d.rem, hasOut)

\* a loop that ends when the buffered samples are consumed
ReadLoop_DrainsOnly(s, rem, hasOut) ==
    IF rem <= 0 THEN [st |-> s, rem |-> rem]
    ELSE Drain(s, rem, hasOut)

ReadLoop(s, rem, hasOut) ==
    IF rem <= 0 THEN [st |-> s, rem |-> rem]
    ELSE ReadLoopDrained(Drain(s, rem, hasOut), hasOut)

\* ------------------------------ seekSampleFrame / readSampleFramesClamped
RECURSIVE seekSampleFrame(_, _)
RECURSIVE readSampleFramesClamped(_, _, _)

\* a skip-read that hands the skipped frames to the caller's output
SkipRead_IntoOutput(s, range) ==
    readSampleFramesClamped([s EXCEPT !.skips = Append(@, range)], range, TRUE)

\* the skip-read of seekSampleFrame: decode and discard the frames of range
SkipRead(s, range) ==
    readSampleFramesClamped([s EXCEPT !.skips = Append(@, range)], range, FALSE)

\* a seek position without prefetch
SeekIndex_NoPrefetch(s, frameIndex) ==
    Max(frameIndex, frameIndexMin(s))

\* the position requested from the decoder when seeking to frameIndex
SeekIndex(s, frameIndex) ==
    Max(frameIndex - kNumberOfPrefetchFrames, frameIndexMin(s))

\* if (m_currentFrameIndex != frameIndex) after the skip-reads of a seek
SeekArrived_Releases(s, frameIndex) ==
    IF s.m_currentFrameIndex # frameIndex
    THEN safeRelease([Noted(s, "mismatch") EXCEPT
                         !.m_currentFrameIndex = frameIndexMax(s)])
    ELSE s

SeekArrived(s, frameIndex) ==
    IF s.m_currentFrameIndex # frameIndex
    THEN [Noted(s, "mismatch") EXCEPT !.m_currentFrameIndex = frameIndexMax(s)]
    ELSE s

\* after the second skip-read
SeekSkippedMore(r, skipFrames, frameIndex) ==
    IF r.range # skipFrames THEN r.st ELSE SeekArrived(r.st, frameIndex)

\* after the first skip-read: skip more if frameIndex is not yet reached
SeekSkipped(r, skipFrames, frameIndex) ==
    IF r.range # skipFrames THEN r.st
    ELSE IF r.st.m_currentFrameIndex < frameIndex
         THEN SeekSkippedMore(
                  SkipRead(r.st, <<r.st.m_currentFrameIndex, frameIndex>>),
                  <<r.st.m_currentFrameIndex, frameIndex>>, frameIndex)
         ELSE SeekArrived(r.st, frameIndex)

\* a seek that keeps the reader when SetCurrentPosition fails
SeekPositioned_KeepsReader(s, ok, seekIndex, frameIndex) ==
    IF ~ok THEN s
    ELSE IF seekIndex >= frameIndex
         THEN [s EXCEPT !.m_currentFrameIndex = frameIndex]
         ELSE SeekSkipped(SkipRead(s, <<seekIndex, frameIndex>>),
                          <<seekIndex, frameIndex>>, frameIndex)

\* after SetCurrentPosition: s is the session with the request logged
SeekPositioned(s, ok, seekIndex, frameIndex) ==
    IF ~ok THEN safeRelease(s)
    ELSE IF seekIndex >= frameIndex
         THEN [s EXCEPT !.m_currentFrameIndex = frameIndex]
         ELSE SeekSkipped(SkipRead(s, <<seekIndex, frameIndex>>),
                          <<seekIndex, frameIndex>>, frameIndex)

SeekRequested(sp, seekIndex, frameIndex) ==
    SeekPositioned([sp.st EXCEPT !.natives = Append(@, seekIndex)], sp.ok,
                   seekIndex, frameIndex)

SeekAt(s, seekIndex, frameIndex) ==
    SeekRequested(SetCurrentPosition(s, fromFrameIndex(s, seekIndex)),
                  seekIndex, frameIndex)

\* a seek that does not look at the reader before positioning it
SeekDiscarded_SeeksDead(s, frameIndex) ==
    SeekAt(s, SeekIndex(s, frameIndex), frameIndex)

\* the samples discarded and the position invalidated
SeekDiscarded(s, frameIndex) ==
    IF ~s.m_pSourceReader THEN s
    ELSE SeekAt(s, SeekIndex(s, frameIndex), frameIndex)

\* a destructive seek that keeps the decoded samples
DestructiveSeek_KeepsBuffer(s, frameIndex) ==
    SeekDiscarded([s EXCEPT !.m_currentFrameIndex = frameIndexMax(s),
                            !.clears = @ + 1],
                  frameIndex)

\* if (m_currentFrameIndex != frameIndex) { ... }
DestructiveSeek(s, frameIndex) ==
    SeekDiscarded([s EXCEPT !.m_sampleBuffer = clear(@),
                            !.m_currentFrameIndex = frameIndexMax(s),
                            !.clears = @ + 1],
                  frameIndex)

\* a seek that repositions the decoder even when it is at frameIndex
SeekUnlessThere_Always(s, frameIndex) ==
    DestructiveSeek(s, frameIndex)

SeekUnlessThere(s, frameIndex) ==
    IF s.m_currentFrameIndex # frameIndex
    THEN DestructiveSeek(s, frameIndex)
    ELSE s

\* after the skip-read of a forward seek
SeekForwardSkipped(r, skipFrames, frameIndex) ==
    IF r.range # skipFrames THEN r.st ELSE SeekUnlessThere(r.st, frameIndex)

seekSampleFrame(s, frameIndex) ==
    IF s.m_currentFrameIndex < frameIndex
       /\ (frameIndex - s.m_currentFrameIndex)
             <= samples2frames(s, readableLength(s.m_sampleBuffer))
                + 2 * kNumberOfPrefetchFrames
    THEN SeekForwardSkipped(SkipRead(s, <<s.m_currentFrameIndex, frameIndex>>),
                            <<s.m_currentFrameIndex, frameIndex>>, frameIndex)
    ELSE SeekUnlessThere(s, frameIndex)

\* a result range that ends where the request ends
DeliveredRange_AtEnd(firstFrameIndex, numberOfFramesTotal, numberOfFramesRemaining) ==
    <<firstFrameIndex + numberOfFramesRemaining,
      firstFrameIndex + numberOfFramesTotal>>

\* IndexRange::forward(firstFrameIndex, numberOfFrames) of the frames read
DeliveredRange(firstFrameIndex, numberOfFramesTotal, numberOfFramesRemaining) ==
    <<firstFrameIndex,
      firstFrameIndex + (numberOfFramesTotal - numberOfFramesRemaining)>>

ReadDelivered(r, range) ==
    [st |-> r.st,
     range |-> DeliveredRange(range[1], range[2] - range[1], r.rem)]

\* a read that answers a failed alignment with the requested range
ReadPositioned_ClaimsRange(s, range, hasOut) ==
    IF s.m_currentFrameIndex # range[1]
    THEN [st |-> s, range |-> range]
    ELSE ReadDelivered(ReadLoop(s, range[2] - range[1], hasOut), range)

\* after seekSampleFrame(firstFrameIndex)
ReadPositioned(s, range, hasOut) ==
    IF s.m_currentFrameIndex # range[1]
    THEN [st |-> s, range |-> <<s.m_currentFrameIndex, s.m_currentFrameIndex>>]
    ELSE ReadDelivered(ReadLoop(s, range[2] - range[1], hasOut), range)

\* a read that decodes whether or not the seek reached firstFrameIndex
readSampleFramesClamped_ReadsUnaligned(s, range, hasOut) ==
    ReadDelivered(ReadLoop(seekSampleFrame(s, range[1]), range[2] - range[1],
                           hasOut), range)

readSampleFramesClamped(s, range, hasOut) ==
    ReadPositioned(seekSampleFrame(s, range[1]), range, hasOut)

\* -------------------------------------------------------------- the files
\* what the decoder makes of the file behind the session's URL: its native
\* format, its duration (units of 100 ns), the size of the blocks it decodes
\* and how far its last frame is from the frame the duration announces;
\* the short files last 0.1 s, the long one 10 s
ShortFiles ==
    {[channels |-> 1, rate |-> 44100, duration |-> 1000000,
      blockFrames |-> 1024, endOffset |-> -100],
     [channels |-> 2, rate |-> 48000, duration |-> 1000000,
      blockFrames |-> 1024, endOffset |-> 100]}
LongFiles ==
    {[channels |-> 1, rate |-> 44100, duration |-> 100000000,
      blockFrames |-> 5000, endOffset |-> 0]}
Files == ShortFiles \cup LongFiles

\* OpenParams: 0 is "not valid", i.e. no override
NoOverride == [channelCount |-> 0, sampleRate |-> 0]
OpenParamSets(f) ==
    IF f \in LongFiles
    THEN {NoOverride, [channelCount |-> 2, sampleRate |-> 48000]}
    ELSE {NoOverride}

\* the calls of tryOpen that can fail
OpenSteps ==
    {"CoInitializeEx", "MFStartup", "MFCreateSourceReaderFromURL",
     "configureAudioStream", "GetChannels", "GetSamplesPerSecond",
     "GetSampleSize", "readProperties", "SetCurrentPosition"}
OpenFailures ==
    {{}} \cup {{x} : x \in OpenSteps}
    \cup {{"MFStartup", x} : x \in {"MFCreateSourceReaderFromURL", "readProperties"}}

\* the frame ranges callers ask for
ReadRanges(f) ==
    IF f \in LongFiles
    THEN {<<5000, 5010>>, <<3000, 3010>>}
    ELSE {<<0, 1000>>, <<500, 1500>>, <<1010, 1500>>, <<1500, 1600>>,
          <<4300, 4900>>}

VARIABLES
    m_hrCoInitialize,     \* SUCCEEDED(m_hrCoInitialize)
    m_hrMFStartup,        \* SUCCEEDED(m_hrMFStartup)
    m_pSourceReader,      \* m_pSourceReader != nullptr
    m_currentFrameIndex,
    m_sampleBuffer,
    audio,                \* channelCount, sampleRate, frameIndexMax
    decoder,              \* decPos, decLand, decEnd, blockFrames
    file,                 \* the file behind the URL
    platform,             \* outstanding COM / MF initialisations of the process:
                          \* com, mf of this session, others of the other ones
    life,                 \* "new", "open", "failed", "closed"
    call,                 \* the last call: its arguments, result and effects
    probe                 \* what the first undisturbed read of the probe
                          \* range delivered in this session

vars == <<m_hrCoInitialize, m_hrMFStartup, m_pSourceReader, m_currentFrameIndex,
          m_sampleBuffer, audio, decoder, file, platform, life, call, probe>>

NoCall ==
    [op |-> "none", range |-> <<0, 0>>, clamped |-> <<0, 0>>, ret |-> <<0, 0>>,
     out |-> <<>>, natives |-> <<>>, skips |-> <<>>, drained |-> <<>>,
     pulls |-> 0, clears |-> 0, releases |-> 0, shutdowns |-> 0, uninits |-> 0,
     tsBad |-> FALSE, events |-> {}, result |-> "none",
     cur0 |-> 0, buf0 |-> 0, alive0 |-> FALSE, life0 |-> "new",
     fails |-> {}, stage |-> "none", grown |-> <<>>, order |-> <<>>]

\* the range whose first delivery is remembered
ProbeRange(f) == IF f \in LongFiles THEN <<3000, 3010>> ELSE <<1010, 1500>>
NoProbe == [state |-> "none", ret |-> <<0, 0>>, out |-> <<>>]

\* the session and its decoder as one record, at the start of a call
Session(script) ==
    [m_pSourceReader |-> m_pSourceReader,
     m_currentFrameIndex |-> m_currentFrameIndex,
     m_sampleBuffer |-> m_sampleBuffer,
     channelCount |-> audio.channelCount,
     sampleRate |-> audio.sampleRate,
     frameIndexMax |-> audio.frameIndexMax,
     decPos |-> decoder.decPos, decLand |-> decoder.decLand,
     decEnd |-> decoder.decEnd, blockFrames |-> decoder.blockFrames,
     script |-> script, pulls |-> 0, natives |-> <<>>, skips |-> <<>>,
     drained |-> <<>>, clears |-> 0, releases |-> 0, out |-> <<>>,
     tsBad |-> FALSE, events |-> {}, grown |-> <<>>]

\* the effects of a call on the session and its decoder
Commit(s) ==
    /\ m_pSourceReader' = s.m_pSourceReader
    /\ m_currentFrameIndex' = s.m_currentFrameIndex
    /\ m_sampleBuffer' = s.m_sampleBuffer
    /\ audio' = [channelCount |-> s.channelCount, sampleRate |-> s.sampleRate,
                 frameIndexMax |-> s.frameIndexMax]
    /\ decoder' = [decPos |-> s.decPos, decLand |-> s.decLand,
                   decEnd |-> s.decEnd, blockFrames |-> s.blockFrames]

Effects(s, c) ==
    [c EXCEPT !.out = s.out, !.natives = s.natives, !.skips = s.skips,
              !.drained = s.drained, !.pulls = s.pulls, !.clears = s.clears,
              !.releases = s.releases, !.tsBad = s.tsBad, !.events = s.events,
              !.grown = s.grown,
              !.cur0 = m_currentFrameIndex,
              !.buf0 = readableLength(m_sampleBuffer),
              !.alive0 = m_pSourceReader, !.life0 = life]

Init ==
    /\ m_hrCoInitialize = FALSE
    /\ m_hrMFStartup = FALSE
    /\ m_pSourceReader = FALSE
    /\ m_currentFrameIndex = 0
    /\ m_sampleBuffer = NewBuffer
    /\ audio = [channelCount |-> 0, sampleRate |-> 0, frameIndexMax |-> 0]
    /\ decoder = [decPos |-> 0, decLand |-> 0, decEnd |-> 0, blockFrames |-> 0]
    /\ file \in Files
    /\ platform = [com |-> 0, mf |-> 0, others |-> 0]
    /\ life = "new"
    /\ call = NoCall
    /\ probe = NoProbe

\* ------------------------------------------------------------------ tryOpen
\* configureAudioStream, from the first call that changes the session on
configureAudioStream(s, params, fails) ==
    LET numChannels == IF params.channelCount # 0 THEN params.channelCount
                       ELSE file.channels
        samplesPerSecond == IF params.sampleRate # 0 THEN params.sampleRate
                            ELSE file.rate
        s1 == [s EXCEPT !.channelCount = numChannels]
        s2 == [s1 EXCEPT !.sampleRate = samplesPerSecond]
        sampleBufferCapacity == (kLeftoverSize * kBytesPerSample) \div kBytesPerSample
        s3 == IF s2.m_sampleBuffer.capacity < sampleBufferCapacity
              THEN [s2 EXCEPT !.m_sampleBuffer =
                       CopyWithCapacity(@, sampleBufferCapacity)]
              ELSE s2
    IN CASE "configureAudioStream" \in fails \/ "GetChannels" \in fails ->
                [st |-> s, ok |-> FALSE]
         [] "GetSamplesPerSecond" \in fails -> [st |-> s1, ok |-> FALSE]
         [] "GetSampleSize" \in fails -> [st |-> s2, ok |-> FALSE]
         [] OTHER -> [st |-> s3, ok |-> TRUE]

\* a duration probe that converts with the native rate of the file
readProperties_NativeRate(s, fails) ==
    IF "readProperties" \in fails THEN [st |-> s, ok |-> FALSE]
    ELSE [st |-> [s EXCEPT !.frameIndexMax =
                               toFrameIndex([s EXCEPT !.sampleRate = file.rate],
                                            file.duration),
                           !.decEnd = toFrameIndex(s, file.duration)
                                      + file.endOffset],
          ok |-> TRUE]

readProperties(s, fails) ==
    IF "readProperties" \in fails THEN [st |-> s, ok |-> FALSE]
    ELSE [st |-> [s EXCEPT !.frameIndexMax = toFrameIndex(s, file.duration),
                           !.decEnd = toFrameIndex(s, file.duration)
                                      + file.endOffset],
          ok |-> TRUE]

\* MFCreateSourceReaderFromURL: a new decoder at the beginning of the stream
CreateSourceReader(s) ==
    [s EXCEPT !.m_pSourceReader = TRUE, !.decPos = 0, !.decLand = 0,
              !.blockFrames = file.blockFrames]

\* where tryOpen returns: the session, the two HRESULTs, the result and the
\* last stage it entered
OpenReturn(s, hrCo, hrMF, res, stage) ==
    [st |-> s, hrCo |-> hrCo, hrMF |-> hrMF, res |-> res, stage |-> stage]

\* after readProperties
OpenProbed(rp, hrMF) ==
    IF ~rp.ok THEN OpenReturn(rp.st, TRUE, hrMF, "Failed", "readProperties")
    ELSE OpenReturn(seekSampleFrame(rp.st, frameIndexMin(rp.st)), TRUE, hrMF,
                    "Succeeded", "seekSampleFrame")

\* after configureAudioStream
OpenConfigured(cf, hrMF, fails) ==
    IF ~cf.ok THEN OpenReturn(cf.st, TRUE, hrMF, "Failed", "configureAudioStream")
    ELSE OpenProbed(readProperties(cf.st, fails), hrMF)

\* CoInitializeEx, MFStartup (whose result is stored and not looked at) and
\* MFCreateSourceReaderFromURL
\* a tryOpen that takes MFStartup to have succeeded
OpenStages_AssumesStartup(s, params, fails) ==
    IF "CoInitializeEx" \in fails
    THEN OpenReturn(s, FALSE, m_hrMFStartup, "Failed", "CoInitializeEx")
    ELSE IF "MFCreateSourceReaderFromURL" \in fails
    THEN OpenReturn(s, TRUE, TRUE, "Failed", "MFCreateSourceReaderFromURL")
    ELSE OpenConfigured(configureAudioStream(CreateSourceReader(s), params, fails),
                        TRUE, fails)

OpenStages(s, params, fails) ==
    IF "CoInitializeEx" \in fails
    THEN OpenReturn(s, FALSE, m_hrMFStartup, "Failed", "CoInitializeEx")
    ELSE IF "MFCreateSourceReaderFromURL" \in fails
    THEN OpenReturn(s, TRUE, "MFStartup" \notin fails, "Failed",
                    "MFCreateSourceReaderFromURL")
    ELSE OpenConfigured(configureAudioStream(CreateSourceReader(s), params, fails),
                        "MFStartup" \notin fails, fails)

OpenDone(o, fails) ==
    /\ Commit(o.st)
    /\ m_hrCoInitialize' = o.hrCo
    /\ m_hrMFStartup' = o.hrMF
    /\ platform' = [platform EXCEPT
                      !.com = @ + (IF "CoInitializeEx" \notin fails THEN 1 ELSE 0),
                      !.mf = @ + (IF fails \cap {"CoInitializeEx", "MFStartup"} = {}
                                  THEN 1 ELSE 0)]
    /\ life' = IF o.res = "Succeeded" THEN "open" ELSE "failed"
    /\ call' = [Effects(o.st, [NoCall EXCEPT !.op = "tryOpen"]) EXCEPT
                  !.result = o.res, !.fails = fails, !.stage = o.stage]
    /\ probe' = NoProbe

tryOpen(params, fails) ==
    /\ UNCHANGED file
    /\ IF m_hrCoInitialize
       THEN /\ UNCHANGED <<m_hrCoInitialize, m_hrMFStartup, m_pSourceReader,
                           m_currentFrameIndex, m_sampleBuffer, audio,
                           decoder, platform, life, probe>>
            /\ call' = [Effects(Session(NoScript), [NoCall EXCEPT !.op = "tryOpen"])
                          EXCEPT !.result = "Failed"]
       ELSE OpenDone(OpenStages(
                Session([NoScript EXCEPT
                           !.seekFailAt =
                               IF "SetCurrentPosition" \in fails THEN 1 ELSE 0]),
                params, fails), fails)

\* -------------------------------------------------------------------- close
\* a close that shuts down and leaves m_hrMFStartup and m_hrCoInitialize set
\* the calls of close in the order it makes them
CloseOrder ==
    (IF m_pSourceReader THEN <<"Release">> ELSE <<>>)
    \o (IF m_hrMFStartup THEN <<"MFShutdown">> ELSE <<>>)
    \o (IF m_hrCoInitialize THEN <<"CoUninitialize">> ELSE <<>>)

\* a close that shuts Media Foundation down when COM was initialized
CloseShutdowns_TestsCom == IF m_hrCoInitialize THEN 1 ELSE 0

\* the calls of MFShutdown close makes
CloseShutdowns == IF m_hrMFStartup THEN 1 ELSE 0

close_KeepsResults ==
    /\ LET s == safeRelease(Session(NoScript))
           sh == CloseShutdowns
           un == IF m_hrCoInitialize THEN 1 ELSE 0
       IN /\ Commit(s)
          /\ UNCHANGED <<m_hrMFStartup, m_hrCoInitialize>>
          /\ platform' = [platform EXCEPT !.com = Max(@ - un, 0),
                                           !.mf = Max(@ - sh, 0)]
          /\ call' = [Effects(s, [NoCall EXCEPT !.op = "close"]) EXCEPT
                        !.shutdowns = sh, !.uninits = un,
                        !.order = CloseOrder]
    /\ life' = "closed"
    /\ probe' = NoProbe
    /\ UNCHANGED file

close ==
    /\ LET s == safeRelease(Session(NoScript))
           sh == CloseShutdowns
           un == IF m_hrCoInitialize THEN 1 ELSE 0
       IN /\ Commit(s)
          /\ m_hrMFStartup' = FALSE
          /\ m_hrCoInitialize' = FALSE
          /\ platform' = [platform EXCEPT !.com = @ - un, !.mf = @ - sh]
          /\ call' = [Effects(s, [NoCall EXCEPT !.op = "close"]) EXCEPT
                        !.shutdowns = sh, !.uninits = un,
                        !.order = CloseOrder]
    /\ life' = "closed"
    /\ probe' = NoProbe
    /\ UNCHANGED file

\* ------------------------------------------------- StreamUnitConverter alone
\* The converter of a session on its own: constructed for a negotiated sample
\* rate and asked, for one frame index from frameIndexMin to frameIndexMax,
\* for the stream position of the frame and for the frame index of that
\* position. call.range holds the frame, call.natives the stream position
\* and call.ret what the two conversions made of the frame.
Converted(a, frameIndex) ==
    [NoCall EXCEPT !.op = "convert",
                   !.range = <<frameIndex, frameIndex>>,
                   !.natives = <<fromFrameIndex(a, frameIndex)>>,
                   !.ret = <<frameIndex,
                             toFrameIndex(a, fromFrameIndex(a, frameIndex))>>]

ConverterRates(f) ==
    {f.rate} \cup ({p.sampleRate : p \in OpenParamSets(f)} \ {0})

ConverterInit ==
    /\ m_hrCoInitialize = FALSE
    /\ m_hrMFStartup = FALSE
    /\ m_pSourceReader = FALSE
    /\ m_sampleBuffer = NewBuffer
    /\ decoder = [decPos |-> 0, decLand |-> 0, decEnd |-> 0, blockFrames |-> 0]
    /\ file \in Files
    /\ \E rate \in ConverterRates(file) :
          audio = [channelCount |-> file.channels, sampleRate |-> rate,
                   frameIndexMax |->
                       toFrameIndex([sampleRate |-> rate], file.duration)]
    /\ m_currentFrameIndex \in kFrameIndexMin..audio.frameIndexMax
    /\ platform = [com |-> 0, mf |-> 0, others |-> 0]
    /\ life = "new"
    /\ call = NoCall
    /\ probe = NoProbe

convert ==
    /\ call.op = "none"
    /\ call' = Converted(audio, m_currentFrameIndex)
    /\ UNCHANGED <<m_hrCoInitialize, m_hrMFStartup, m_pSourceReader,
                   m_currentFrameIndex, m_sampleBuffer, audio, decoder, file,
                   platform, life, probe>>

ConverterNext == convert

SpecConverter == ConverterInit /\ [][ConverterNext]_vars

\* ------------------------------------------------------- a second session
\* Another SoundSourceMediaFoundation of the process that opens its file
\* (CoInitializeEx and MFStartup succeed) and closes it. COM and Media
\* Foundation count their initializations per process: platform.others is
\* what the other session holds (0 or 1), platform.com and platform.mf what
\* this session has initialized and not undone.
otherTryOpen ==
    /\ platform.others = 0
    /\ platform' = [platform EXCEPT !.others = @ + 1]
    /\ call' = [NoCall EXCEPT !.op = "otherTryOpen"]
    /\ UNCHANGED <<m_hrCoInitialize, m_hrMFStartup, m_pSourceReader,
                   m_currentFrameIndex, m_sampleBuffer, audio, decoder, file,
                   life, probe>>

otherClose ==
    /\ platform.others > 0
    /\ platform' = [platform EXCEPT !.others = @ - 1]
    /\ call' = [NoCall EXCEPT !.op = "otherClose"]
    /\ UNCHANGED <<m_hrCoInitialize, m_hrMFStartup, m_pSourceReader,
                   m_currentFrameIndex, m_sampleBuffer, audio, decoder, file,
                   life, probe>>

\* --------------------------------------------------------------- readFrames
\* AudioSource::readSampleFrames: the requested range is clamped to the valid
\* frame index range, and an empty range is answered without decoding
clampFrameIndexRange(s, range) ==
    LET lo == Max(range[1], frameIndexMin(s))
        hi == Min(range[2], frameIndexMax(s))
    IN IF lo <= hi THEN <<lo, hi>> ELSE <<lo, lo>>

\* the call has returned r for the request range, clamped to clamped
ReadDone(r, range, clamped) ==
    /\ Commit(r.st)
    /\ call' = [Effects(r.st, [NoCall EXCEPT !.op = "readFrames",
                                             !.range = range,
                                             !.clamped = clamped])
                  EXCEPT !.ret = r.range]
    /\ probe' = CASE r.st.events # {} \/ r.st.tsBad \/ probe.state = "dirty" ->
                        [NoProbe EXCEPT !.state = "dirty"]
                   [] probe.state = "none" /\ range = ProbeRange(file) ->
                        [state |-> "set", ret |-> r.range, out |-> r.st.out]
                   [] OTHER -> probe

ReadClamped(s, range, clamped) ==
    ReadDone(IF clamped[1] >= clamped[2]
             THEN [st |-> s, range |-> clamped]
             ELSE readSampleFramesClamped(s, clamped, TRUE),
             range, clamped)

readFrames(range, script) ==
    /\ life = "open"
    /\ ReadClamped(Session(script), range,
                   clampFrameIndexRange(Session(script), range))
    /\ UNCHANGED <<m_hrCoInitialize, m_hrMFStartup, file, platform, life>>

Next ==
    \/ \E params \in OpenParamSets(file), fails \in OpenFailures : tryOpen(params, fails)
    \/ close
    \/ \E range \in ReadRanges(file), script \in Scripts : readFrames(range, script)
    \/ otherTryOpen
    \/ otherClose

Spec == Init /\ [][Next]_vars

\* ================================================================ claims
RangeLen(r) == r[2] - r[1]
IsRead(c) == c.op = "readFrames" /\ c.clamped[1] < c.clamped[2]
\* the frames buffered when the call started
BufferedFrames0(c) == c.buf0 \div audio.channelCount
\* the call had to leave the current position by a destructive seek
NeedsDestructiveSeek(c) ==
    \/ c.clamped[1] < c.cur0
    \/ c.clamped[1] - c.cur0 > BufferedFrames0(c) + 2 * kNumberOfPrefetchFrames
\* the call could reach its first frame by skipping
MaySkip(c) ==
    /\ c.cur0 < c.clamped[1]
    /\ c.clamped[1] - c.cur0 <= BufferedFrames0(c) + 2 * kNumberOfPrefetchFrames

\* C1: in a session without decoder faults, reading the probe range again
\* delivers the range and the samples its first read delivered
C1_Determinism ==
    (call.op = "readFrames" /\ call.range = ProbeRange(file)
     /\ probe.state = "set")
        => (call.ret = probe.ret /\ call.out = probe.out)

\* C2: a drain that leaves samples in the buffer takes the oldest ones
C2_FifoConsumption ==
    \A i \in 1..Len(call.drained) :
        LET data == call.drained[i][1]
            slice == call.drained[i][2]
        IN Samples(slice) < Samples(data) => slice = Front(data, Samples(slice))

\* what C3 says of a read that met the decoder outcomes in kinds, and of the
\* reads after it
HardErrorHandled(kinds) ==
    /\ (call'.op = "readFrames" /\ call'.events \cap kinds # {})
          => /\ RangeLen(call'.ret) < RangeLen(call'.clamped)
             /\ Samples(call'.out)
                  = RangeLen(call'.ret) * audio'.channelCount
             /\ ~m_pSourceReader'
             /\ readableLength(m_sampleBuffer') = 0
    /\ (call'.op = "readFrames" /\ life = "open" /\ ~m_pSourceReader
        /\ readableLength(m_sampleBuffer) = 0)
          => /\ RangeLen(call'.ret) = 0
             /\ call'.out = <<>>
             /\ call'.pulls = 0
             /\ ~m_pSourceReader'
             /\ readableLength(m_sampleBuffer') = 0

\* C3 as claimed: a failed ReadSample call or the stream error flag ends the
\* read with a shorter range, releases the decoder, and every later read
\* returns an empty range
C3_HardErrorAsClaimed == [][HardErrorHandled({"failed", "error"})]_vars

\* C3 amended: the stream error flag ends the read with a shorter range
\* holding what was delivered, releases the decoder, and every later read
\* returns an empty range
C3_StreamErrorReleases == [][HardErrorHandled({"error"})]_vars

C3_Witness ==
    /\ call.op = "readFrames" /\ "error" \in call.events
    /\ 0 < RangeLen(call.ret) /\ RangeLen(call.ret) < RangeLen(call.clamped)
    /\ ~m_pSourceReader

\* C4: the returned range starts at the first requested frame and is no
\* longer than the request, or it is empty (failed alignment)
C4_ReturnedRange ==
    call.op = "readFrames"
        => \/ /\ call.ret[1] = call.range[1]
              /\ call.ret[1] <= call.ret[2]
              /\ RangeLen(call.ret) <= RangeLen(call.range)
           \/ RangeLen(call.ret) = 0

C4_Witness ==
    /\ IsRead(call)
    /\ call.ret[1] = call.range[1]
    /\ 0 < RangeLen(call.ret) /\ RangeLen(call.ret) < RangeLen(call.range)

\* C5: the delivered range ends at frameIndexMax at the latest, and no
\* delivered sample lies at or after frameIndexMax
C5_Clamping ==
    call.op = "readFrames"
        => /\ call.ret[2] <= audio.frameIndexMax
           /\ \A i \in 1..Len(call.out) :
                 call.out[i][2] <= audio.frameIndexMax * audio.channelCount

\* C6: a forward seek within the skip distance issues no native positioning
\* request, and reaches its target if the decoder supplies the frames
C6_SkipInsteadOfSeek ==
    (IsRead(call) /\ MaySkip(call))
        => /\ call.natives = <<>>
           /\ call.clears = 0
           /\ (call.alive0 /\ call.events = {}) => call.ret[1] = call.clamped[1]

C6_Witness ==
    /\ IsRead(call) /\ MaySkip(call)
    /\ call.skips # <<>> /\ call.pulls > 0
    /\ call.natives = <<>>
    /\ call.ret = call.clamped

\* C7: a destructive seek requests max(target - prefetch, frameIndexMin)
\* from the decoder and skip-reads from there to the target before it
\* delivers a sample; for the target 50000 the request is 47888
C7_SeekAnchor ==
    /\ (IsRead(call) /\ NeedsDestructiveSeek(call) /\ call.alive0)
          => LET target == call.clamped[1]
                 anchor == Max(target - kNumberOfPrefetchFrames, kFrameIndexMin)
             IN /\ call.natives # <<>>
                /\ call.natives[1] = anchor
                /\ (call.out # <<>> /\ anchor < target)
                      => (call.skips # <<>> /\ call.skips[1] = <<anchor, target>>)
    /\ (life = "open" /\ audio.frameIndexMax >= 100000)
          => SeekIndex(Session(NoScript), 50000) = 47888

C7_Witness ==
    /\ IsRead(call) /\ NeedsDestructiveSeek(call) /\ call.alive0
    /\ call.cur0 = 5010 /\ call.clamped[1] = 3000
    /\ call.natives[1] = 888
    /\ call.skips[1] = <<888, 3000>>
    /\ call.ret = call.clamped

\* Scenario B: readFrames([0, 1000)) has just delivered its range and
\* readFrames([500, 1500)) follows, without a decoder fault and with the
\* decoder alive
ScenarioB ==
    /\ call.op = "readFrames" /\ call.range = <<0, 1000>>
    /\ call.ret = <<0, 1000>>
    /\ m_pSourceReader
    /\ call'.op = "readFrames" /\ call'.range = <<500, 1500>>
    /\ call'.events = {} /\ ~call'.tsBad

\* a session right after a successful open, and what one contiguous read of
\* [0, 1500) delivers in it
FreshSession ==
    [Session(NoScript) EXCEPT !.m_pSourceReader = TRUE,
                              !.m_currentFrameIndex = kFrameIndexMin,
                              !.m_sampleBuffer = clear(@),
                              !.decPos = 0, !.decLand = 0]
ContiguousRead == readSampleFramesClamped(FreshSession, <<0, 1500>>, TRUE)
\* the samples of the frames [500, 1000) in the output of a read that starts
\* at frame first
Overlap(out, first) ==
    Front(DropFront(out, (500 - first) * audio.channelCount),
          500 * audio.channelCount)

\* C8 as claimed: the second read of scenario B is served without buffer
\* discard and without native positioning request
C8_ScenarioBAsClaimed ==
    [][ScenarioB => (call'.clears = 0 /\ call'.natives = <<>>
                     /\ Overlap(call'.out, 500)
                          = Overlap(ContiguousRead.st.out, 0))]_vars

\* C8 amended: the second read of scenario B is served by a destructive
\* seek, and its samples for [500, 1000) are those of a contiguous read
C8_ScenarioBDestructive ==
    [][ScenarioB => (/\ call'.clears > 0
                     /\ call'.natives # <<>>
                     /\ call'.natives[1] = 0
                     /\ call'.ret = <<500, 1500>>
                     /\ Overlap(call'.out, 500)
                          = Overlap(ContiguousRead.st.out, 0))]_vars

C8_Witness ==
    /\ call.op = "readFrames" /\ call.range = <<500, 1500>>
    /\ call.cur0 = 1000 /\ call.alive0
    /\ call.events = {} /\ ~call.tsBad
    /\ call.clears > 0 /\ call.natives # <<>>
    /\ call.ret = <<500, 1500>>

\* the targets of the skip/seek comparison, relative to the current position
SkipGaps == {10, 500, 2112}

\* bySkip and bySeek are the session after reaching target by the skip path
\* and by a destructive seek
SkipSeekAgree(bySkip, bySeek, target) ==
    (target + 10 <= audio.frameIndexMax
     /\ bySkip.natives = <<>> /\ bySkip.m_currentFrameIndex = target)
        => /\ bySeek.m_currentFrameIndex = target
           /\ readSampleFramesClamped(bySkip, <<target, target + 10>>, TRUE).st.out
                = readSampleFramesClamped(bySeek, <<target, target + 10>>, TRUE).st.out

\* C9: from every position, skipping to a target within the skip distance
\* and seeking to it destructively end at the same position and make the
\* next read deliver the same samples
C9_SkipSeekEquivalence ==
    (life = "open" /\ m_pSourceReader
     /\ m_currentFrameIndex < audio.frameIndexMax)
        => \A g \in SkipGaps :
             SkipSeekAgree(seekSampleFrame(Session(NoScript), m_currentFrameIndex + g),
                           DestructiveSeek(Session(NoScript), m_currentFrameIndex + g),
                           m_currentFrameIndex + g)

\* C10: close leaves no decoder handle and neither Media Foundation nor COM
\* held, and a close after a close releases and shuts down nothing
C10_IdempotentClose ==
    call.op = "close"
        => /\ ~m_pSourceReader /\ ~m_hrMFStartup /\ ~m_hrCoInitialize
           /\ platform.com = 0 /\ platform.mf = 0
           /\ call.releases <= 1 /\ call.shutdowns <= 1 /\ call.uninits <= 1
           /\ call.life0 = "closed"
                 => (call.releases = 0 /\ call.shutdowns = 0 /\ call.uninits = 0)

C10_Witness ==
    /\ call.op = "close" /\ call.life0 = "closed"
    /\ ~m_pSourceReader /\ platform.com = 0 /\ platform.mf = 0

\* the stages of tryOpen in the order of the code, and the stage a failing
\* call belongs to
OpenStageOrder ==
    <<"CoInitializeEx", "MFStartup", "MFCreateSourceReaderFromURL",
      "configureAudioStream", "readProperties", "seekSampleFrame">>
StageNo(stage) ==
    IF \E i \in 1..Len(OpenStageOrder) : OpenStageOrder[i] = stage
    THEN CHOOSE i \in 1..Len(OpenStageOrder) : OpenStageOrder[i] = stage
    ELSE 0
StageOf(step) ==
    IF step \in {"GetChannels", "GetSamplesPerSecond", "GetSampleSize"}
    THEN "configureAudioStream" ELSE step
\* the failures of tryOpen that C11 is about
FatalOpenSteps ==
    {"CoInitializeEx", "MFStartup", "MFCreateSourceReaderFromURL",
     "configureAudioStream", "GetChannels", "GetSamplesPerSecond",
     "GetSampleSize", "readProperties"}

\* C11: a tryOpen in which COM initialization, Media Foundation startup, the
\* creation of the source reader, the configuration of the audio stream or
\* the duration probe fails returns Failed and enters no later stage
C11_OpenFailsAtEveryStage ==
    (call.op = "tryOpen" /\ call.stage # "none")
        => \A step \in call.fails \cap FatalOpenSteps :
              /\ call.result = "Failed"
              /\ StageNo(call.stage) <= StageNo(StageOf(step))

\* the session has lost its decoder and holds nothing: no reader, an empty
\* buffer and the position at the sentinel
DeadAtSentinel(reader, buffer, cur, a) ==
    /\ ~reader
    /\ readableLength(buffer) = 0
    /\ cur = a.frameIndexMax

\* C12: a failing SetCurrentPosition of a destructive seek releases the
\* reader and leaves an empty buffer and the position frameIndexMax; from
\* then on every readFrames returns an empty range, neither pulls from nor
\* positions the decoder, and leaves the session as it is
C12_SeekFailureFatal ==
    [][/\ "seekfailed" \in call'.events
            => /\ DeadAtSentinel(m_pSourceReader', m_sampleBuffer',
                                 m_currentFrameIndex', audio')
               /\ call'.releases = 1
       /\ (call'.op = "readFrames" /\ life = "open"
           /\ DeadAtSentinel(m_pSourceReader, m_sampleBuffer,
                             m_currentFrameIndex, audio))
            => /\ RangeLen(call'.ret) = 0
               /\ call'.out = <<>>
               /\ call'.pulls = 0
               /\ call'.natives = <<>>
               /\ DeadAtSentinel(m_pSourceReader', m_sampleBuffer',
                                 m_currentFrameIndex', audio')]_vars

\* a read on a session whose decoder was lost to a failed native seek
C12_Witness ==
    /\ IsRead(call) /\ life = "open"
    /\ ~call.alive0 /\ call.cur0 = audio.frameIndexMax /\ call.buf0 = 0
    /\ call.events = {}
    /\ RangeLen(call.ret) = 0
    /\ ~m_pSourceReader

\* the range a read of range returns when the decoder behaves from now on
RereadRange(range) ==
    readSampleFramesClamped(Session(NoScript), range, TRUE).range

\* C13: when the position after the skip-reads of a successful native seek
\* is not the target, the position is frameIndexMax, the read returns an
\* empty range, the reader is kept, and a later read that has to seek
\* delivers its range
C13_SeekMismatchNotFatal ==
    (call.op = "readFrames" /\ "mismatch" \in call.events)
        => /\ m_currentFrameIndex = audio.frameIndexMax
           /\ RangeLen(call.ret) = 0
           /\ call.out = <<>>
           /\ m_pSourceReader
           /\ call.releases = 0
           /\ \E range \in ReadRanges(file) :
                 /\ range[1] < range[2]
                 /\ RereadRange(range) = range

\* a read whose native seek succeeded and whose skip-read ended off target
C13_Witness ==
    /\ IsRead(call) /\ "mismatch" \in call.events
    /\ call.natives # <<>>
    /\ call.skips # <<>>
    /\ m_pSourceReader
    /\ m_currentFrameIndex = audio.frameIndexMax

\* the blocks a read of range pulls when the decoder behaves from now on
RereadPulls(range) ==
    readSampleFramesClamped(Session(NoScript), range, TRUE).st.pulls

\* a read that a change of the media type has stopped with a partial result
TypeChangeStops(c) ==
    /\ RangeLen(c.ret) < RangeLen(c.clamped)
    /\ Samples(c.out) = RangeLen(c.ret) * audio.channelCount

\* C14 as claimed: a pull that reports a changed media type stops the read
\* with a partial result and releases the reader, and no later read pulls
\* blocks from the decoder
C14_TypeChangeAsClaimed ==
    (call.op = "readFrames" /\ "typechanged" \in call.events)
        => /\ TypeChangeStops(call)
           /\ ~m_pSourceReader
           /\ \A range \in ReadRanges(file) : RereadPulls(range) = 0

\* C14 amended: a pull that reports a changed media type stops the read with
\* a partial result; the reader is kept, and later reads pull blocks from
\* the decoder again
C14_TypeChangeKeepsReader ==
    (call.op = "readFrames" /\ "typechanged" \in call.events)
        => /\ TypeChangeStops(call)
           /\ m_pSourceReader
           /\ call.releases = 0
           /\ \E range \in ReadRanges(file) : RereadPulls(range) > 0

\* a read that delivered frames before the media type changed
C14_Witness ==
    /\ IsRead(call) /\ "typechanged" \in call.events
    /\ 0 < RangeLen(call.ret) /\ RangeLen(call.ret) < RangeLen(call.clamped)
    /\ m_pSourceReader

\* C15: a pull that reports the end of the stream stops the read with a
\* range shorter than requested that holds the frames delivered so far; the
\* reader is kept, and a later read of an earlier range delivers frames
C15_EndOfStreamNotAnError ==
    (call.op = "readFrames" /\ "endofstream" \in call.events)
        => /\ RangeLen(call.ret) < RangeLen(call.clamped)
           /\ Samples(call.out) = RangeLen(call.ret) * audio.channelCount
           /\ m_pSourceReader
           /\ call.releases = 0
           /\ \E range \in ReadRanges(file) :
                 /\ range[1] < m_currentFrameIndex
                 /\ range[1] < range[2]
                 /\ RereadRange(range) = range

\* a read that delivered frames up to the end of the stream
C15_Witness ==
    /\ IsRead(call) /\ call.events = {"endofstream"}
    /\ 0 < RangeLen(call.ret) /\ RangeLen(call.ret) < RangeLen(call.clamped)
    /\ call.out # <<>>
    /\ m_pSourceReader

\* a readFrames step of an open session whose reader has been released:
\* the reader is not re-acquired and the decoder is neither asked for a
\* block nor positioned
DeadReaderStaysDead ==
    (call'.op = "readFrames" /\ life = "open" /\ ~m_pSourceReader)
        => /\ ~m_pSourceReader'
           /\ call'.pulls = 0
           /\ call'.natives = <<>>
           /\ call'.releases = 0

\* C16 as claimed: once the reader has been released no readFrames call
\* re-acquires it or invokes the decoder, and every further read delivers
\* no frames
C16_DeathAsClaimed ==
    [][/\ DeadReaderStaysDead
       /\ (call'.op = "readFrames" /\ life = "open" /\ ~m_pSourceReader)
            => /\ RangeLen(call'.ret) = 0
               /\ call'.out = <<>>]_vars

\* C16 amended: once the reader has been released no readFrames call
\* re-acquires it or invokes the decoder; a further read delivers at most
\* the samples that were buffered when it started, and none when the buffer
\* was empty
C16_DecoderDeathPermanent ==
    [][/\ DeadReaderStaysDead
       /\ (call'.op = "readFrames" /\ life = "open" /\ ~m_pSourceReader)
            => /\ Samples(call'.out) <= readableLength(m_sampleBuffer)
               /\ Samples(call'.out)
                    = RangeLen(call'.ret) * audio.channelCount
               /\ readableLength(m_sampleBuffer')
                    <= readableLength(m_sampleBuffer) - Samples(call'.out)
               /\ readableLength(m_sampleBuffer) = 0
                    => (RangeLen(call'.ret) = 0 /\ call'.out = <<>>)]_vars

\* a read on a released reader that delivered buffered frames
C16_Witness ==
    /\ IsRead(call) /\ call.life0 = "open" /\ ~call.alive0
    /\ call.out # <<>>
    /\ call.pulls = 0
    /\ ~m_pSourceReader

\* cap is base doubled some number of times
RECURSIVE IsDoublingOf(_, _)
IsDoublingOf(cap, base) ==
    \/ cap = base
    \/ /\ cap > base
       /\ cap % 2 = 0
       /\ IsDoublingOf(cap \div 2, base)

\* C17: after a successful open the capacity of the read-ahead buffer is the
\* negotiated block size doubled k >= 0 times and at least the number of
\* buffered samples, and no step decreases the capacity
C17_BufferCapacity ==
    /\ [](life = "open"
            => /\ IsDoublingOf(m_sampleBuffer.capacity, kLeftoverSize)
               /\ readableLength(m_sampleBuffer) <= m_sampleBuffer.capacity)
    /\ [][m_sampleBuffer'.capacity >= m_sampleBuffer.capacity]_vars

\* a read whose block made the capacity double twice and left samples behind
C17_Witness ==
    /\ IsRead(call) /\ life = "open"
    /\ call.pulls > 0
    /\ m_sampleBuffer.capacity = 4 * kLeftoverSize
    /\ readableLength(m_sampleBuffer) > kLeftoverSize

\* the samples the next read of n frames from the current position
\* delivers when the decoder behaves
ReadBack(n) ==
    readSampleFramesClamped(
        Session(NoScript),
        <<m_currentFrameIndex, m_currentFrameIndex + n>>, TRUE).st.out

\* C18: a read that enlarges the buffer keeps the samples that were buffered,
\* in their order, and the samples written to the enlarged buffer are read
\* back in the order written: the next read from the current position
\* delivers the oldest of them first
C18_GrowthPreservesData ==
    (call.op = "readFrames" /\ call.grown # <<>> /\ call.events = {}
     /\ ~call.tsBad /\ life = "open")
        => /\ \A i \in 1..Len(call.grown) : call.grown[i][2] = call.grown[i][1]
           /\ \A n \in {1, samples2frames(Session(NoScript),
                                          readableLength(m_sampleBuffer))} :
                 n > 0 => ReadBack(n)
                            = Front(m_sampleBuffer.data,
                                    frames2samples(Session(NoScript), n))

\* the place of a call of close in the order release, shut down, uninitialize
CloseRank(c) ==
    CASE c = "Release" -> 1 [] c = "MFShutdown" -> 2 [] OTHER -> 3

\* C19: the initializations of COM and of Media Foundation that are still
\* to be undone are exactly those the session remembers as succeeded, so
\* that none is undone twice or without having succeeded; after close (and
\* so after destruction) none is left, and close releases the reader before
\* it shuts down Media Foundation and before it uninitializes COM
C19_BalancedRelease ==
    /\ platform.com = (IF m_hrCoInitialize THEN 1 ELSE 0)
    /\ platform.mf = (IF m_hrMFStartup THEN 1 ELSE 0)
    /\ call.op = "close"
          => /\ platform.com = 0 /\ platform.mf = 0
             /\ ~m_pSourceReader
             /\ \A i, j \in 1..Len(call.order) :
                   i < j => CloseRank(call.order[i]) < CloseRank(call.order[j])
             /\ call.releases = 1 => call.order[1] = "Release"

\* a close that released the reader, shut down and uninitialized
C19_Witness ==
    /\ call.op = "close"
    /\ call.order = <<"Release", "MFShutdown", "CoUninitialize">>
    /\ platform.com = 0 /\ platform.mf = 0

\* the successful startups of Media Foundation and initializations of COM
\* in the process that have not been undone
StartupsLessShutdowns == platform.mf + platform.others
InitsLessUninits == platform.com + platform.others

\* C20: while another session is open, no tryOpen, read or close of this
\* session takes from the process what the other session has started: the
\* startups not yet shut down stay at least those of the other session, so
\* Media Foundation and COM stay initialized
C20_IndependentSessions ==
    platform.others > 0
        => /\ StartupsLessShutdowns >= platform.others
           /\ InitsLessUninits >= platform.others
           /\ StartupsLessShutdowns > 0

\* this session was closed, or failed to open, while the other one is open
C20_Witness ==
    /\ platform.others > 0
    /\ \/ call.op = "close" /\ call.shutdowns = 1 /\ call.uninits = 1
       \/ call.op = "tryOpen" /\ call.result = "Failed"
                              /\ "MFStartup" \in call.fails
    /\ StartupsLessShutdowns = platform.others

\* C21: while the session is open its frame index range is
\* [0, toFrameIndex(duration)), 441000 frames for 10 s at 44100 Hz, and no
\* read, seek or close changes it
C21_FrameIndexRange ==
    /\ [](life = "open"
            => /\ kFrameIndexMin = 0
               /\ audio.frameIndexMax = toFrameIndex(audio, file.duration)
               /\ (file.duration = 100000000 /\ audio.sampleRate = 44100)
                     => audio.frameIndexMax = 441000)
    /\ [][life = "open" => audio'.frameIndexMax = audio.frameIndexMax]_vars

\* Scenario A after a read that had to seek
C21_Witness ==
    /\ life = "open" /\ IsRead(call) /\ call.natives # <<>>
    /\ file.duration = 100000000 /\ audio.sampleRate = 44100
    /\ audio.channelCount = 1
    /\ audio.frameIndexMax = 441000

\* C22: for the negotiated sample rate every frame index from frameIndexMin
\* to frameIndexMax comes back from toFrameIndex(fromFrameIndex(f)), so a
\* block whose time stamp is the requested stream position is taken to start
\* at the requested frame
C22_ConversionRoundTrip ==
    call.op = "convert"
        => /\ call.ret[2] = call.range[1]
           /\ toFrameIndex(audio, call.natives[1]) = m_currentFrameIndex
           /\ DecoderFrameAt(audio, call.natives[1]) = m_currentFrameIndex

\* the last frame index of the 48000 Hz session of the long file converted
C22_Witness ==
    /\ call.op = "convert"
    /\ audio.sampleRate # file.rate
    /\ m_currentFrameIndex = audio.frameIndexMax
    /\ m_currentFrameIndex > kNumberOfPrefetchFrames
    /\ call.ret = <<audio.frameIndexMax, audio.frameIndexMax>>

\* what a readFrames(range) returns and how it ended when the decoder
\* follows script from the present state on
ReadWith(range, script) ==
    readSampleFramesClamped(Session(script),
                            clampFrameIndexRange(Session(script), range), TRUE)
\* the result the caller gets: the delivered range and its samples
ReadResult(r) == <<r.range, r.st.out>>
\* why the read ended, in the failure kinds of the specification
EndKind(e) ==
    CASE e = "endofstream" -> "EndOfStream"
      [] e = "typechanged" -> "UnsupportedFormatChange"
      [] e \in {"mismatch", "seekfailed"} -> "SeekMismatch"
      [] OTHER -> "DecodeError"
EndKinds(r) == {EndKind(e) : e \in r.st.events}

\* two reads that ended for different reasons returned different results
Distinguishable(r1, r2) ==
    EndKinds(r1) # EndKinds(r2) => ReadResult(r1) # ReadResult(r2)
\* two reads that ended for different reasons returned the same result
Indistinguishable(r1, r2) ==
    /\ EndKinds(r1) # {} /\ EndKinds(r2) # {}
    /\ EndKinds(r1) # EndKinds(r2)
    /\ ReadResult(r1) = ReadResult(r2)
\* the result is a range and as many samples; when it is shorter than the
\* request, something ended the read
LengthTellsPartial(r, clamped) ==
    /\ Samples(r.st.out) = RangeLen(r.range) * audio.channelCount
    /\ RangeLen(r.range) <= RangeLen(clamped)
    /\ RangeLen(r.range) < RangeLen(clamped)
          => (EndKinds(r) # {} \/ ~m_pSourceReader)

\* a session right after a successful tryOpen
JustOpened == call.op = "tryOpen" /\ life = "open"

\* C23 as claimed: the result of readFrames tells the reasons apart for which
\* a read ended: reads of the same range that ended for different reasons
\* return different results
C23_FailureKindsAsClaimed ==
    JustOpened
        => \A range \in ReadRanges(file) : \A s1, s2 \in Scripts :
              Distinguishable(ReadWith(range, s1), ReadWith(range, s2))

\* C23 amended: the result of readFrames is the delivered range and its
\* samples; a range shorter than the request tells that the read ended
\* early, but not why: with a live decoder there are reads of the same range
\* that ended for different reasons and return the same result
C23_ResultIsRangeOnly ==
    JustOpened
        => /\ \A range \in ReadRanges(file) : \A s1 \in Scripts :
                 LengthTellsPartial(ReadWith(range, s1),
                                    clampFrameIndexRange(Session(s1), range))
           /\ m_pSourceReader
                 => \E range \in ReadRanges(file) : \E s1, s2 \in Scripts :
                       Indistinguishable(ReadWith(range, s1),
                                         ReadWith(range, s2))

\* the result the call returned is also the result of a read of the same
\* range that ends for another reason
SameResultOtherKind(r2) ==
    /\ ReadResult(r2) = <<call.ret, call.out>>
    /\ EndKinds(r2) # {}
    /\ EndKinds(r2) # {EndKind(e) : e \in call.events}

\* a read ended by a failed pull that left the session as it was: the same
\* read ended by another kind of failure returns the same result
C23_Witness ==
    /\ IsRead(call) /\ call.events = {"failed"}
    /\ RangeLen(call.ret) < RangeLen(call.clamped)
    /\ m_pSourceReader
    /\ call.cur0 = m_currentFrameIndex
    /\ call.buf0 = readableLength(m_sampleBuffer)
    /\ \E s2 \in Scripts : SameResultOtherKind(ReadWith(call.range, s2))

\* C24: in every call the frame index of the time stamp of each pulled
\* block is m_currentFrameIndex, unless m_currentFrameIndex is frameIndexMax
C24_BlockTimestamp == ~call.tsBad

\* C25: a call whose seekSampleFrame takes the destructive path with a live
\* reader discards the buffer once and issues exactly one native positioning
\* request; the decode-and-discard that follows neither discards the buffer
\* again nor repositions the decoder
C25_OneNativeSeek ==
    call.natives # <<>> => Len(call.natives) = 1 /\ call.clears = 1

\* a seek to frameIndex from the current state with a decoder that lands
\* MaxSeekSlack frames before every requested position
SeekLandingBefore(frameIndex) ==
    seekSampleFrame(Session([NoScript EXCEPT !.land = "before",
                                             !.slack = MaxSeekSlack]),
                    frameIndex)
\* the skip-reads of a seek to frameIndex whose first block starts d frames
\* before the anchor: [anchor, target) and then [target - d, target)
GapSkips(frameIndex, d) ==
    <<<<frameIndex - kNumberOfPrefetchFrames, frameIndex>>,
      <<frameIndex - d, frameIndex>>>>
GapClosed(s, frameIndex) ==
    /\ s.skips = GapSkips(frameIndex, MaxSeekSlack)
    /\ s.m_currentFrameIndex = frameIndex

\* C26: when the decoder lands d > 0 frames before the anchor requested by a
\* seek, the first skip-read leaves the position at target - d, a second
\* skip-read of [target - d, target) follows and the seek ends at target,
\* with no more than two skip-reads
C26_ResidualGap ==
    JustOpened =>
        \A range \in ReadRanges(file) :
            range[1] - kNumberOfPrefetchFrames > MaxSeekSlack
                => GapClosed(SeekLandingBefore(range[1]), range[1])

\* C27: after every call of an open session m_currentFrameIndex lies in
\* [frameIndexMin, frameIndexMax], whatever the decoder did
C27_PositionValid ==
    life = "open" => isValidFrameIndex(audio, m_currentFrameIndex)

\* the frames held in m_sampleBuffer
BufferedFrames == samples2frames(audio, readableLength(m_sampleBuffer))

\* C28: while the reader is alive and m_currentFrameIndex is not
\* frameIndexMax, m_currentFrameIndex plus the buffered frames is the frame
\* index of the next block of the decoder: no pulled sample was lost
C28_PositionBufferConsistency ==
    (life = "open" /\ m_pSourceReader
        /\ m_currentFrameIndex # audio.frameIndexMax)
    => m_currentFrameIndex + BufferedFrames = decoder.decPos

\* a call whose seekSampleFrame(frameIndexMin) took the destructive path with
\* a live reader and a native request that succeeded
SoughtFirstFrame ==
    /\ call.cur0 # kFrameIndexMin
    /\ call.natives # <<>>
    /\ "seekfailed" \notin call.events
    /\ \/ call.op = "tryOpen"
       \/ call.op = "readFrames" /\ call.clamped[1] = kFrameIndexMin

\* C29: a destructive seek to frameIndexMin issues the one native request for
\* frameIndexMin, performs no skip-read and no pull, and ends with
\* m_currentFrameIndex = frameIndexMin and an empty buffer
C29_SeekToFirstFrame ==
    SoughtFirstFrame =>
        /\ call.natives = <<kFrameIndexMin>>
        /\ call.skips = <<>>
        /\ call.clears = 1
        /\ call.op = "tryOpen" =>
              /\ call.pulls = 0
              /\ m_currentFrameIndex = kFrameIndexMin
              /\ readableLength(m_sampleBuffer) = 0
C29_Witness ==
    /\ SoughtFirstFrame
    /\ call.op = "tryOpen"
    /\ call.buf0 > 0
    /\ m_currentFrameIndex = kFrameIndexMin

\* a read whose seekSampleFrame took the destructive path with the reader
\* already released
DeadDestructiveSeek ==
    call.op = "readFrames" /\ ~call.alive0 /\ call.clears > 0

\* C30: a destructive seek with a released reader discards the buffered
\* samples, sets m_currentFrameIndex to frameIndexMax and makes no native
\* call; the read that triggered it returns an empty range
C30_DeadReaderSeek ==
    DeadDestructiveSeek =>
        /\ readableLength(m_sampleBuffer) = 0
        /\ m_currentFrameIndex = audio.frameIndexMax
        /\ call.natives = <<>> /\ call.pulls = 0
        /\ call.ret[1] = call.ret[2] /\ call.out = <<>>
C30_Witness ==
    DeadDestructiveSeek /\ call.buf0 > 0 /\ call.cur0 # audio.frameIndexMax

\* r is what readSampleFramesClamped made of the session a that
\* seekSampleFrame(firstFrameIndex) left: when a is not at firstFrameIndex,
\* the empty range at a's position and nothing pulled, drained or written
AlignmentFailureReturnsEmpty(a, r, firstFrameIndex) ==
    a.m_currentFrameIndex # firstFrameIndex =>
        /\ r.range = <<a.m_currentFrameIndex, a.m_currentFrameIndex>>
        /\ r.st.pulls = a.pulls
        /\ r.st.drained = a.drained
        /\ r.st.out = <<>>
        /\ r.st.m_sampleBuffer = a.m_sampleBuffer
        /\ r.st.m_currentFrameIndex = a.m_currentFrameIndex
AlignedOrEmpty(s, clamped) ==
    clamped[1] < clamped[2] =>
        AlignmentFailureReturnsEmpty(seekSampleFrame(s, clamped[1]),
                                     readSampleFramesClamped(s, clamped, TRUE),
                                     clamped[1])
\* a read that came back with a range that does not start where it was asked
ReadUnaligned ==
    /\ call.op = "readFrames"
    /\ call.clamped[1] < call.clamped[2]
    /\ call.ret[1] # call.clamped[1]

\* C31: when the position after seekSampleFrame(range.start) is not
\* range.start, readSampleFramesClamped returns the empty range at the
\* position and pulls, drains and writes nothing
C31_AlignmentFailure ==
    /\ ReadUnaligned =>
          /\ call.ret = <<m_currentFrameIndex, m_currentFrameIndex>>
          /\ call.out = <<>>
    /\ JustOpened =>
          \A range \in ReadRanges(file), script \in Scripts :
              AlignedOrEmpty(Session(script),
                             clampFrameIndexRange(Session(script), range))
C31_Witness ==
    ReadUnaligned /\ call.alive0 /\ call.events = {"mismatch"}

\* a read that starts at the position of the session
ReadAtPosition ==
    /\ call.op = "readFrames"
    /\ call.clamped[1] < call.clamped[2]
    /\ call.clamped[1] = call.cur0

\* C32: seekSampleFrame(m_currentFrameIndex) changes neither the position,
\* the buffer nor the reader, and calls the decoder not at all
C32_SeekToCurrentIsNoOp ==
    /\ life = "open" =>
          \A script \in Scripts :
              seekSampleFrame(Session(script), m_currentFrameIndex)
                  = Session(script)
    /\ ReadAtPosition =>
          call.natives = <<>> /\ call.clears = 0 /\ call.skips = <<>>
C32_Witness ==
    ReadAtPosition /\ call.cur0 > kFrameIndexMin /\ call.buf0 > 0
        /\ call.ret = call.clamped

\* rSkip and rRead are the results of the same read without and with an
\* output buffer: the same range and session, and samples written only by
\* the second
SameButOutput(rSkip, rRead) ==
    /\ rSkip.range = rRead.range
    /\ rSkip.st = [rRead.st EXCEPT !.out = <<>>]
    /\ Samples(rRead.st.out)
          = frames2samples(rRead.st, rRead.range[2] - rRead.range[1])
SkipEqualsRead(s, clamped) ==
    clamped[1] < clamped[2] =>
        SameButOutput(readSampleFramesClamped(s, clamped, FALSE),
                      readSampleFramesClamped(s, clamped, TRUE))

\* C33: from the same session and with the same decoder behaviour,
\* readSampleFramesClamped without and with an output buffer return the same
\* range and leave the same position, buffer and reader; only the output
\* differs
C33_SkipEqualsRead ==
    JustOpened =>
        \A range \in ReadRanges(file), script \in Scripts :
            SkipEqualsRead(Session(script),
                           clampFrameIndexRange(Session(script), range))
\* a call that read in both modes: a skip-read forward and then the read
C33_Witness ==
    /\ call.op = "readFrames"
    /\ call.natives = <<>> /\ Len(call.skips) = 1
    /\ call.pulls > 0 /\ call.events = {}
    /\ call.ret = call.clamped /\ call.out # <<>>

\* a readFrames call of a non-empty range
ReadCalled == call.op = "readFrames" /\ call.clamped[1] < call.clamped[2]
\* the decoder failed during the call or before it
DecoderFailed ==
    \/ call.events \cap {"failed", "error", "typechanged", "dropped",
                         "bufferfailed", "seekfailed"} # {}
    \/ ~call.alive0
\* the pulls and native requests of a call are bounded by its range: two
\* passes (a forward skip and the decoding after a destructive seek) of the
\* blocks up to the end of the range and the pull that ends the pass, and a
\* request every kNumberOfPrefetchFrames frames down to frameIndexMin
BoundedWork ==
    /\ call.pulls <= 2 * ((call.clamped[2] \div decoder.blockFrames) + 2)
    /\ Len(call.natives) <= (call.clamped[1] \div kNumberOfPrefetchFrames) + 2

OpenedState ==
    /\ m_currentFrameIndex = kFrameIndexMin
    /\ readableLength(m_sampleBuffer) = 0
    /\ m_sampleBuffer.capacity > 0
    /\ m_pSourceReader
\* a tryOpen of a session that is open fails and touches nothing
ReopenRefused ==
    (life = "open" /\ call'.op = "tryOpen") =>
        /\ call'.result = "Failed"
        /\ UNCHANGED <<m_pSourceReader, m_currentFrameIndex, m_sampleBuffer,
                       m_hrCoInitialize, m_hrMFStartup, platform, life>>

\* C35: after a tryOpen that returned Succeeded the position is
\* frameIndexMin, the buffer is empty with a capacity above 0 and the reader
\* is set; a tryOpen of an open session returns Failed and changes neither
\* the reader, the position nor the platform initialization
C35_StateAfterOpen ==
    /\ []((call.op = "tryOpen" /\ call.result = "Succeeded") => OpenedState)
    /\ [][ReopenRefused]_vars

====
